---- MODULE Spec2Model ----
(***************************************************************************)
(* Model of the rugcheck-api core (src/src/index.ts): the GoPlus fetch,    *)
(* the attribute normalizer (parseContractInfo / parseTokenInfo), the risk *)
(* engine (analyzeContract, calculateRiskScore, getRiskLevel,              *)
(* checkHoneypot), checkToken and the windowed batch helper checkTokens.   *)
(*                                                                         *)
(* Representation of JavaScript values:                                    *)
(*   - a string is a TLA+ string; an absent string field is UNDEF;         *)
(*   - a number is Num(v) with v an integer count of 1/10000 units, so     *)
(*     that the fractions and percentages of the inputs used here are      *)
(*     exact (the IEEE products and sums of these inputs are exact too);   *)
(*     NaN and an absent number are the records NaN and Undefined;         *)
(*   - null / undefined objects are the records Null and Undefined;        *)
(*   - a property read finds the properties an object inherits from        *)
(*     Object.prototype when the object has no own property of that name.  *)
(* Risk.description and TokenCheck.timestamp are left out: no rule, score  *)
(* or verdict reads them.                                                  *)
(***************************************************************************)
EXTENDS Integers, Sequences, FiniteSets, TLC

----------------------------------------------------------------------------
(* JavaScript value helpers *)

UNDEF == "<undefined>"
Undefined == [t |-> "undefined"]
Null == [t |-> "null"]
\* a raised exception / a rejected promise
Throw == [t |-> "throw"]
NaN == [t |-> "NaN"]
Num(v) == [t |-> "number", v |-> v]
Lit(n) == Num(n * 10000)
Arr(s) == [t |-> "array", v |-> s]
Obj(o) == [t |-> "object", v |-> o]
Str(s) == [t |-> "string", v |-> s]
\* a function object, e.g. the constructor Object
Fn(name) == [t |-> "function", name |-> name]

\* truthiness of a tagged value: undefined, null, NaN, "" and 0 are falsy;
\* every object and every function is truthy
Truthy(x) ==
  /\ x.t \notin {"undefined", "null", "NaN"}
  /\ x.t = "string" => x.v # ""
  /\ x.t = "number" => x.v # 0

\* truthiness of a string-or-undefined value: undefined and "" are falsy
StrTruthy(s) == s # UNDEF /\ s # ""
\* truthiness of a number-or-undefined value: undefined, NaN and 0 are falsy
NumTruthy(x) == x.t = "number" /\ x.v # 0
\* x > n and x < n for a literal integer n; false for NaN and undefined
Gt(x, n) == x.t = "number" /\ x.v > n * 10000
Lt(x, n) == x.t = "number" /\ x.v < n * 10000
JsAdd(x, y) == IF x.t = "number" /\ y.t = "number" THEN Num(x.v + y.v) ELSE NaN
JsMul(x, n) == IF x.t = "number" THEN Num(x.v * n) ELSE NaN

\* String.prototype.toLowerCase on the strings the model uses
ToLowerCase(s) ==
  CASE s = "0xAAaA" -> "0xaaaa"
    [] s = "0xBbBB" -> "0xbbbb"
    [] s = "Ethereum" -> "ethereum"
    [] s = "BSC" -> "bsc"
    [] s = "Constructor" -> "constructor"
    [] OTHER -> s

\* parseFloat on the decimal strings the model uses; anything else is NaN
parseFloat(s) ==
  CASE s = "0" -> Num(0)
    [] s = "0.0625" -> Num(625)
    [] s = "0.1" -> Num(1000)
    [] s = "0.15" -> Num(1500)
    [] s = "0.2" -> Num(2000)
    [] s = "0.25" -> Num(2500)
    [] s = "0.3" -> Num(3000)
    [] s = "0.35" -> Num(3500)
    [] s = "0.4" -> Num(4000)
    [] s = "0.5" -> Num(5000)
    [] s = "0.6" -> Num(6000)
    [] OTHER -> NaN

\* parseInt on the decimal strings the model uses; anything else is NaN
parseInt(s) ==
  CASE s = "0" -> Lit(0)
    [] s = "1" -> Lit(1)
    [] s = "49" -> Lit(49)
    [] s = "50" -> Lit(50)
    [] s = "1200" -> Lit(1200)
    [] OTHER -> NaN

----------------------------------------------------------------------------
(* Constants of index.ts *)

CHAIN_IDS ==
  [ethereum |-> "1", bsc |-> "56", polygon |-> "137", arbitrum |-> "42161",
   optimism |-> "10", avalanche |-> "43114", fantom |-> "250", base |-> "8453",
   cronos |-> "25", gnosis |-> "100"]

ZeroAddress == "0x0000000000000000000000000000000000000000"

\* the string-flag fields of GoPlusTokenData
FlagFields ==
  {"is_honeypot", "honeypot_with_same_creator", "is_open_source", "is_proxy",
   "is_mintable", "hidden_owner", "selfdestruct", "external_call", "cannot_buy",
   "cannot_sell_all", "slippage_modifiable", "is_blacklisted", "is_whitelisted",
   "is_anti_whale", "trading_cooldown", "transfer_pausable"}

\* a GoPlusTokenData record none of whose optional fields is present
EmptyData ==
  [token_name |-> UNDEF, token_symbol |-> UNDEF, total_supply |-> UNDEF,
   holder_count |-> UNDEF, lp_holder_count |-> UNDEF, lp_total_supply |-> UNDEF,
   is_honeypot |-> UNDEF, honeypot_with_same_creator |-> UNDEF,
   is_open_source |-> UNDEF, is_proxy |-> UNDEF, is_mintable |-> UNDEF,
   hidden_owner |-> UNDEF, selfdestruct |-> UNDEF, external_call |-> UNDEF,
   buy_tax |-> UNDEF, sell_tax |-> UNDEF, cannot_buy |-> UNDEF,
   cannot_sell_all |-> UNDEF, slippage_modifiable |-> UNDEF,
   is_blacklisted |-> UNDEF, is_whitelisted |-> UNDEF, is_anti_whale |-> UNDEF,
   trading_cooldown |-> UNDEF, transfer_pausable |-> UNDEF,
   owner_address |-> UNDEF, creator_address |-> UNDEF,
   creator_percent |-> UNDEF, owner_percent |-> UNDEF, holders |-> Undefined]

\* the properties a plain object (an object literal, an object parsed from
\* JSON) inherits from Object.prototype
ObjectPrototypeKeys ==
  {"constructor", "__proto__", "hasOwnProperty", "isPrototypeOf",
   "propertyIsEnumerable", "toLocaleString", "toString", "valueOf",
   "__defineGetter__", "__defineSetter__", "__lookupGetter__", "__lookupSetter__"}

\* Object.prototype itself: an object with none of the GoPlusTokenData fields
ObjectPrototype == Obj(EmptyData)

\* obj[key] for a plain object obj that has no own property key
Inherited(key) ==
  IF key = "constructor" THEN Fn("Object")
  ELSE IF key = "__proto__" THEN ObjectPrototype
  ELSE IF key \in ObjectPrototypeKeys THEN Fn(key)
  ELSE Undefined

\* the GoPlusTokenData fields read from a truthy value: those of a record, and
\* undefined throughout for a function, which has none of them
Fields(x) == IF x.t = "object" THEN x.v ELSE EmptyData

----------------------------------------------------------------------------
(* fetchGoPlusData: the response is what the network gives back for the    *)
(* request: [throws |-> TRUE] when fetch or response.json() rejects, else  *)
(* [throws |-> FALSE, code, result] with result Undefined or              *)
(* [t |-> "object", v |-> a function from address keys to token data].     *)

\* CHAIN_IDS[chain.toLowerCase()]: the own property, else the inherited one
ChainId(chain) ==
  LET key == ToLowerCase(chain)
  IN  IF key \in DOMAIN CHAIN_IDS THEN Str(CHAIN_IDS[key]) ELSE Inherited(key)

\* the body of the try block: Throw when fetch or response.json() rejects
TryFetch(address, response) ==
  IF response.throws THEN Throw
  ELSE IF response.code # 1 \/ ~Truthy(response.result) THEN Null
  ELSE LET key == ToLowerCase(address)
           tokenData == IF key \in DOMAIN response.result.v
                        THEN Obj(response.result.v[key])
                        ELSE Inherited(key)
       IN  IF Truthy(tokenData) THEN tokenData ELSE Null

\* fetchGoPlusData without its try/catch
fetchGoPlusData_noCatch(chain, address, response) ==
  IF ~Truthy(ChainId(chain)) THEN Null ELSE TryFetch(address, response)

fetchGoPlusData(chain, address, response) ==
  LET tried == TryFetch(address, response)
  IN  IF ~Truthy(ChainId(chain)) THEN Null
      ELSE IF tried.t = "throw" THEN Null
      ELSE tried

----------------------------------------------------------------------------
(* Attribute normalizer *)

\* renounced without the zero-address comparison
Renounced_noZeroAddress(data) == ~StrTruthy(data.owner_address)

Renounced(data) ==
  ~StrTruthy(data.owner_address) \/ data.owner_address = ZeroAddress

\* the tax parsed as parseFloat(raw || '0') * 100: an absent tax becomes 0
ParseTax_unsetIsZero(raw) == JsMul(parseFloat(IF StrTruthy(raw) THEN raw ELSE "0"), 100)

\* raw ? parseFloat(raw) * 100 : undefined
ParseTax(raw) == IF StrTruthy(raw) THEN JsMul(parseFloat(raw), 100) ELSE Undefined

parseContractInfo(data) ==
  [verified |-> data.is_open_source = "1",
   renounced |-> Renounced(data),
   owner |-> data.owner_address,
   creator |-> data.creator_address,
   mintable |-> data.is_mintable = "1",
   pausable |-> data.transfer_pausable = "1",
   blacklist |-> data.is_blacklisted = "1",
   whitelist |-> data.is_whitelisted = "1",
   proxy |-> data.is_proxy = "1",
   selfDestruct |-> data.selfdestruct = "1",
   externalCall |-> data.external_call = "1",
   buyTax |-> ParseTax(data.buy_tax),
   sellTax |-> ParseTax(data.sell_tax),
   cannotBuy |-> data.cannot_buy = "1",
   cannotSellAll |-> data.cannot_sell_all = "1",
   slippageModifiable |-> data.slippage_modifiable = "1",
   hiddenOwner |-> data.hidden_owner = "1",
   antiWhale |-> data.is_anti_whale = "1",
   tradingCooldown |-> data.trading_cooldown = "1"]

RECURSIVE SumPercent(_)
SumPercent(hs) ==
  IF hs = <<>> THEN Num(0)
  ELSE JsAdd(SumPercent(SubSeq(hs, 1, Len(hs) - 1)),
             parseFloat(IF StrTruthy(hs[Len(hs)].percent)
                        THEN hs[Len(hs)].percent ELSE "0"))

Top10Percent(data) ==
  IF data.holders.t = "array"
  THEN SumPercent(SubSeq(data.holders.v, 1,
                         IF Len(data.holders.v) < 10 THEN Len(data.holders.v) ELSE 10))
  ELSE Num(0)

parseTokenInfo(data) ==
  [name |-> data.token_name,
   symbol |-> data.token_symbol,
   totalSupply |-> data.total_supply,
   holderCount |-> IF StrTruthy(data.holder_count) THEN parseInt(data.holder_count)
                   ELSE Undefined,
   lpHolderCount |-> IF StrTruthy(data.lp_holder_count) THEN parseInt(data.lp_holder_count)
                     ELSE Undefined,
   lpTotalSupply |-> data.lp_total_supply,
   creatorPercent |-> IF StrTruthy(data.creator_percent)
                      THEN JsMul(parseFloat(data.creator_percent), 100) ELSE Undefined,
   ownerPercent |-> IF StrTruthy(data.owner_percent)
                    THEN JsMul(parseFloat(data.owner_percent), 100) ELSE Undefined,
   top10HolderPercent |-> JsMul(Top10Percent(data), 100)]

----------------------------------------------------------------------------
(* Risk engine *)

\* one `if (cond) risks.push({type, severity})` statement
Rule(cond, type, severity) ==
  IF cond THEN <<[type |-> type, severity |-> severity]>> ELSE <<>>

\* the rules, in the order analyzeContract states them
cannot_sell(contract) == Rule(contract.cannotSellAll, "cannot_sell", "critical")
cannot_buy(contract) == Rule(contract.cannotBuy, "cannot_buy", "critical")
self_destruct(contract) == Rule(contract.selfDestruct, "self_destruct", "critical")
\* the rule with its negation lost
unverified_negationLost(contract) == Rule(contract.verified, "unverified", "high")
unverified(contract) == Rule(~contract.verified, "unverified", "high")
mintable(contract) == Rule(contract.mintable, "mintable", "high")
hidden_owner(contract) == Rule(contract.hiddenOwner, "hidden_owner", "high")
external_call(contract) == Rule(contract.externalCall, "external_call", "high")
\* the sell-tax rule with the critical tier starting at 30 (>= 30)
high_sell_tax_criticalAt30(contract) ==
  Rule(NumTruthy(contract.sellTax) /\ Gt(contract.sellTax, 10), "high_sell_tax",
       IF ~Lt(contract.sellTax, 30) THEN "critical" ELSE "high")
high_sell_tax(contract) ==
  Rule(NumTruthy(contract.sellTax) /\ Gt(contract.sellTax, 10), "high_sell_tax",
       IF Gt(contract.sellTax, 30) THEN "critical" ELSE "high")
high_buy_tax(contract) ==
  Rule(NumTruthy(contract.buyTax) /\ Gt(contract.buyTax, 10), "high_buy_tax",
       IF Gt(contract.buyTax, 30) THEN "critical" ELSE "high")
ownership(contract) ==
  Rule(~contract.renounced /\ StrTruthy(contract.owner), "ownership", "medium")
pausable(contract) == Rule(contract.pausable, "pausable", "medium")
blacklist(contract) == Rule(contract.blacklist, "blacklist", "medium")
proxy(contract) == Rule(contract.proxy, "proxy", "medium")
slippage_modifiable(contract) ==
  Rule(contract.slippageModifiable, "slippage_modifiable", "medium")
creator_concentration(tokenInfo) ==
  Rule(NumTruthy(tokenInfo.creatorPercent) /\ Gt(tokenInfo.creatorPercent, 10),
       "creator_concentration",
       IF Gt(tokenInfo.creatorPercent, 30) THEN "high" ELSE "medium")
holder_concentration(tokenInfo) ==
  Rule(NumTruthy(tokenInfo.top10HolderPercent) /\ Gt(tokenInfo.top10HolderPercent, 50),
       "holder_concentration",
       IF Gt(tokenInfo.top10HolderPercent, 70) THEN "high" ELSE "medium")
low_holders(tokenInfo) ==
  Rule(NumTruthy(tokenInfo.holderCount) /\ Lt(tokenInfo.holderCount, 50),
       "low_holders", "low")
anti_whale(contract) == Rule(contract.antiWhale, "anti_whale", "low")
trading_cooldown(contract) == Rule(contract.tradingCooldown, "trading_cooldown", "low")

\* the `if (tokenInfo) { ... }` block; tokenInfo is Obj(TokenInfo) or Undefined
TokenInfoRules(tokenInfo) ==
  IF tokenInfo.t = "undefined" THEN <<>>
  ELSE creator_concentration(tokenInfo.v) \o holder_concentration(tokenInfo.v)
         \o low_holders(tokenInfo.v)

\* the rules with the medium contract rules stated before the high ones
analyzeContract_mediumFirst(contract, tokenInfo) ==
     cannot_sell(contract) \o cannot_buy(contract) \o self_destruct(contract)
  \o ownership(contract) \o pausable(contract) \o blacklist(contract)
  \o proxy(contract) \o slippage_modifiable(contract)
  \o unverified(contract) \o mintable(contract) \o hidden_owner(contract)
  \o external_call(contract) \o high_sell_tax(contract) \o high_buy_tax(contract)
  \o TokenInfoRules(tokenInfo)
  \o anti_whale(contract) \o trading_cooldown(contract)

analyzeContract(contract, tokenInfo) ==
     cannot_sell(contract) \o cannot_buy(contract) \o self_destruct(contract)
  \o unverified(contract) \o mintable(contract) \o hidden_owner(contract)
  \o external_call(contract) \o high_sell_tax(contract) \o high_buy_tax(contract)
  \o ownership(contract) \o pausable(contract) \o blacklist(contract)
  \o proxy(contract) \o slippage_modifiable(contract)
  \o TokenInfoRules(tokenInfo)
  \o anti_whale(contract) \o trading_cooldown(contract)

weights == [low |-> 5, medium |-> 15, high |-> 25, critical |-> 40]

RECURSIVE SumWeights(_)
SumWeights(risks) ==
  IF risks = <<>> THEN 0
  ELSE SumWeights(SubSeq(risks, 1, Len(risks) - 1)) + weights[risks[Len(risks)].severity]

\* the score without Math.min(100, ...)
calculateRiskScore_noClamp(risks) == SumWeights(risks)

calculateRiskScore(risks) ==
  IF SumWeights(risks) < 100 THEN SumWeights(risks) ELSE 100

\* the level with <= in place of <
getRiskLevel_inclusive(score) ==
  IF score <= 15 THEN "safe"
  ELSE IF score <= 35 THEN "low"
  ELSE IF score <= 55 THEN "medium"
  ELSE IF score <= 75 THEN "high"
  ELSE "critical"

getRiskLevel(score) ==
  IF score < 15 THEN "safe"
  ELSE IF score < 35 THEN "low"
  ELSE IF score < 55 THEN "medium"
  ELSE IF score < 75 THEN "high"
  ELSE "critical"

\* the verdict with sellTax >= 50 in place of sellTax > 50
checkHoneypot_atLeast50(data, contract) ==
  IF data.t # "null" /\ Fields(data).is_honeypot = "1" THEN TRUE
  ELSE IF data.t # "null" /\ Fields(data).honeypot_with_same_creator = "1" THEN TRUE
  ELSE IF contract.cannotSellAll THEN TRUE
  ELSE IF NumTruthy(contract.sellTax) /\ ~Lt(contract.sellTax, 50) THEN TRUE
  ELSE FALSE

\* data is what fetchGoPlusData returned: a truthy value or Null (data?.x is
\* undefined for null)
checkHoneypot(data, contract) ==
  IF data.t # "null" /\ Fields(data).is_honeypot = "1" THEN TRUE
  ELSE IF data.t # "null" /\ Fields(data).honeypot_with_same_creator = "1" THEN TRUE
  ELSE IF contract.cannotSellAll THEN TRUE
  ELSE IF NumTruthy(contract.sellTax) /\ Gt(contract.sellTax, 50) THEN TRUE
  ELSE FALSE

\* the ContractInfo literal checkToken uses when goPlusData is null
FallbackContract ==
  [verified |-> FALSE, renounced |-> FALSE, owner |-> UNDEF, creator |-> UNDEF,
   mintable |-> FALSE, pausable |-> FALSE, blacklist |-> FALSE, whitelist |-> FALSE,
   proxy |-> FALSE, selfDestruct |-> FALSE, externalCall |-> FALSE,
   buyTax |-> Undefined, sellTax |-> Undefined, cannotBuy |-> FALSE,
   cannotSellAll |-> FALSE, slippageModifiable |-> FALSE, hiddenOwner |-> FALSE,
   antiWhale |-> FALSE, tradingCooldown |-> FALSE]

\* the verdict with riskScore > 70 in place of riskScore >= 70
IsRugPull_above70(riskScore, isHoneypot) == riskScore > 70 \/ isHoneypot

IsRugPull(riskScore, isHoneypot) == riskScore >= 70 \/ isHoneypot

\* the part of checkToken after `await fetchGoPlusData(chain, address)`
BuildTokenCheck(address, chain, goPlusData) ==
  LET contract == IF Truthy(goPlusData) THEN parseContractInfo(Fields(goPlusData))
                  ELSE FallbackContract
      tokenInfo == IF Truthy(goPlusData) THEN Obj(parseTokenInfo(Fields(goPlusData)))
                   ELSE Undefined
      risks == analyzeContract(contract, tokenInfo)
      riskScore == calculateRiskScore(risks)
      riskLevel == getRiskLevel(riskScore)
      isHoneypot == checkHoneypot(goPlusData, contract)
      isRugPull == IsRugPull(riskScore, isHoneypot)
  IN  [address |-> address, chain |-> chain, isHoneypot |-> isHoneypot,
       isRugPull |-> isRugPull, riskScore |-> riskScore, riskLevel |-> riskLevel,
       risks |-> risks, contract |-> contract, tokenInfo |-> tokenInfo]

\* checkToken from its resumption after line 410, given what the promise of
\* fetchGoPlusData settled to: the promise checkToken returns settles to
\* Obj(TokenCheck), or to Throw when the awaited promise rejected
ResumeCheckToken(address, chain, settled) ==
  IF settled.t = "throw" THEN Throw
  ELSE Obj(BuildTokenCheck(address, chain, settled))

\* the whole of checkToken, given the response to its request
checkToken(address, chain, response) ==
  ResumeCheckToken(address, chain, fetchGoPlusData(chain, address, response))

----------------------------------------------------------------------------
(* Inputs *)

\* how many times the provider may change its record during a run
MaxEdits == 1
\* the longest risk sequence given to calculateRiskScore on its own
MaxRisks == 4
\* the longest token list given to checkTokens
MaxTokens == 6

Holder(p) == [address |-> "0xholder", percent |-> p]

\* provider records the runs start from
Profile(name) ==
  CASE name = "empty" -> EmptyData
    [] name = "clean" ->
         [f \in DOMAIN EmptyData |->
            IF f \in FlagFields THEN (IF f = "is_open_source" THEN "1" ELSE "0")
            ELSE IF f = "owner_address" THEN ZeroAddress
            ELSE IF f = "creator_address" THEN "0xcreator"
            ELSE IF f \in {"buy_tax", "sell_tax", "creator_percent", "owner_percent"}
              THEN "0"
            ELSE IF f \in {"holder_count", "lp_holder_count"} THEN "1200"
            ELSE IF f = "holders" THEN Arr(<<Holder("0.0625"), Holder("0.0625")>>)
            ELSE "tok"]
    [] name = "risky" ->
         [EmptyData EXCEPT !.is_mintable = "1", !.transfer_pausable = "1",
                           !.is_anti_whale = "1"]
    [] name = "mixed" ->
         [EmptyData EXCEPT !.is_open_source = "1", !.cannot_sell_all = "1",
                           !.is_mintable = "1", !.transfer_pausable = "1",
                           !.is_proxy = "0", !.owner_address = "0xowner",
                           !.sell_tax = "0.15", !.buy_tax = "0.1",
                           !.holder_count = "49", !.creator_percent = "0.2",
                           !.holders = Arr([k \in 1..11 |-> Holder("0.0625")])]
    [] name = "scam" ->
         [f \in DOMAIN EmptyData |->
            IF f \in FlagFields THEN (IF f = "is_open_source" THEN "0" ELSE "1")
            ELSE IF f = "owner_address" THEN "0xowner"
            ELSE IF f = "creator_address" THEN "0xowner"
            ELSE IF f = "buy_tax" THEN "0.35"
            ELSE IF f = "sell_tax" THEN "0.6"
            ELSE IF f \in {"creator_percent", "owner_percent"} THEN "0.4"
            ELSE IF f \in {"holder_count", "lp_holder_count"} THEN "49"
            ELSE IF f = "holders" THEN Arr(<<Holder("0.5"), Holder("0.25")>>)
            ELSE "tok"]

Profiles == {"empty", "clean", "risky", "mixed", "scam"}

\* the values the provider may give a field (the profiles hold the flags "0")
FieldValues(f) ==
  IF f \in FlagFields THEN {UNDEF, "1"}
  ELSE IF f = "owner_address" THEN {UNDEF, "", ZeroAddress, "0xowner"}
  ELSE IF f = "sell_tax"
    THEN {UNDEF, "", "0", "0.1", "0.15", "0.3", "0.35", "0.5", "0.6", "n/a"}
  ELSE IF f = "buy_tax" THEN {UNDEF, "0", "0.1", "0.15", "0.3", "0.35"}
  ELSE IF f = "holder_count" THEN {UNDEF, "", "0", "1", "49", "50", "n/a"}
  ELSE IF f = "creator_percent" THEN {UNDEF, "0.1", "0.2", "0.3", "0.4"}
  ELSE IF f = "holders"
    THEN {Undefined, Arr(<<>>), Arr(<<Holder("0.5"), Holder("")>>),
          Arr([k \in 1..11 |-> Holder("0.0625")]),
          Arr([k \in 1..12 |-> Holder("0.0625")])}
  ELSE {}

EditableFields == {f \in DOMAIN EmptyData : FieldValues(f) # {}}

\* the (address, chain) pairs callers ask about: a token on a chain of
\* CHAIN_IDS, one on a chain it lacks, and two whose chain or address is the
\* name of a property of Object.prototype
Calls ==
  <<[address |-> "0xAAaA", chain |-> "Ethereum"],
    [address |-> "0xbbbb", chain |-> "__proto__"],
    [address |-> "0xBbBB", chain |-> "solana"],
    [address |-> "constructor", chain |-> "BSC"]>>

\* What the network answers to a request for address when the provider holds
\* record d for it (GoPlus keys its result by the lowercase address).
Response(kind, address, d) ==
  CASE kind = "throw" -> [throws |-> TRUE]
    [] kind = "bad_json" -> [throws |-> TRUE]
    [] kind = "bad_code" ->
         [throws |-> FALSE, code |-> 0, result |-> Obj(ToLowerCase(address) :> d)]
    [] kind = "no_result" -> [throws |-> FALSE, code |-> 1, result |-> Undefined]
    [] kind = "missing" ->
         [throws |-> FALSE, code |-> 1, result |-> Obj("0xother" :> d)]
    [] kind = "ok" ->
         [throws |-> FALSE, code |-> 1, result |-> Obj(ToLowerCase(address) :> d)]

\* "throw": fetch rejects; "bad_json": the response arrives and response.json()
\* rejects; the others: the body parses to a GoPlusResponse
Kinds == {"throw", "bad_json", "bad_code", "no_result", "missing", "ok"}

\* the outcomes of a response that has arrived
BodyKinds == Kinds \ {"throw"}

\* the kinds in which the provider gives no record for the address
NoDataKinds == Kinds \ {"ok"}

\* the callers whose checkToken calls may be in flight together
Slots == {"a", "b"}

\* the provider's changes in the runs with two callers
OverlapEdits == {<<"is_mintable", "1">>, <<"is_mintable", "0">>}

\* the risk findings appended when calculateRiskScore is exercised on its own
Severities == {"low", "medium", "high", "critical"}
SomeRisks == [type : {"mintable", "anti_whale"}, severity : Severities]

\* the provider's record for each address of a batch
BatchDb(address) ==
  CASE ToLowerCase(address) = "0xaaaa" -> Profile("risky")
    [] ToLowerCase(address) = "0xbbbb" -> Profile("scam")
    [] OTHER -> Profile("clean")

\* token lists: the first n entries of Calls repeated, or of one call repeated
TokenLists ==
  {[k \in 1..n |-> Calls[((k - 1) % Len(Calls)) + 1]] : n \in 0..MaxTokens}
    \cup {[k \in 1..n |-> Calls[1]] : n \in 0..MaxTokens}

BatchKinds == {"throw", "missing", "ok"}

----------------------------------------------------------------------------
(* State *)

VARIABLES
  profile,      \* the profile the provider's record started from
  db,           \* the provider's record for the token
  edits,        \* how many times the provider has changed its record
  pc,           \* per caller: where its checkToken call stands
  call,         \* per caller: the arguments of its checkToken call
  net,          \* per caller: the kind of answer the network gave
  answer,       \* per caller: the provider's record the response carries
  fetched,      \* per caller: what the promise of fetchGoPlusData settled to
  goPlusData,   \* per caller: checkToken's goPlusData, set when it resumes
  result,       \* per caller: what the checkToken promise settled to
  risks,        \* a risk sequence built finding by finding
  score,        \* calculateRiskScore(risks)
  bpc,          \* checkTokens: "idle", "await", "returned" or "raised"
  tokens,       \* checkTokens: its argument
  kinds,        \* checkTokens: the network's answer for each settled lookup
  i,            \* checkTokens: the loop index
  status,       \* checkTokens: "inflight" or "done" for each lookup of the window
  batchResults, \* checkTokens: the values Promise.all collects, by position
  results       \* checkTokens: the results array

checkVars == <<profile, db, edits, pc, call, net, answer, fetched, goPlusData, result>>
scoreVars == <<risks, score>>
batchVars == <<bpc, tokens, kinds, i, status, batchResults, results>>
vars == <<checkVars, scoreVars, batchVars>>

InitCheck ==
  /\ db = Profile(profile)
  /\ edits = 0
  /\ pc = [s \in Slots |-> "idle"]
  /\ call = [s \in Slots |-> Undefined]
  /\ net = [s \in Slots |-> "none"]
  /\ answer = [s \in Slots |-> Undefined]
  /\ fetched = [s \in Slots |-> Undefined]
  /\ goPlusData = [s \in Slots |-> Undefined]
  /\ result = [s \in Slots |-> Undefined]

InitScore ==
  /\ risks = <<>>
  /\ score = calculateRiskScore(<<>>)

InitBatch ==
  /\ bpc = "idle"
  /\ tokens = <<>>
  /\ kinds = <<>>
  /\ i = 0
  /\ status = <<>>
  /\ batchResults = <<>>
  /\ results = <<>>

----------------------------------------------------------------------------
(* checkToken calls. A call is a promise: it runs to its first await, gives   *)
(* the event loop back, and goes on when what it awaits has settled. pc is    *)
(*   "idle"        not called;                                                *)
(*   "await_fetch" the request is made, fetch(url) is awaited (line 129);     *)
(*   "await_json"  the response arrived, response.json() is awaited (130);    *)
(*   "await_data"  fetchGoPlusData has returned (or thrown) and its promise   *)
(*                 has settled; checkToken, which awaits it at line 410, has  *)
(*                 not resumed;                                               *)
(*   "done"        the promise of checkToken has settled.                     *)
(* Between these steps other calls move and the provider changes its record.  *)

\* the provider changes a field of its record, whatever the calls are doing
ProviderUpdate(f, v) ==
  /\ edits < MaxEdits
  /\ db[f] # v
  /\ db' = [db EXCEPT ![f] = v]
  /\ edits' = edits + 1
  /\ UNCHANGED <<profile, pc, call, net, answer, fetched, goPlusData, result,
                 scoreVars, batchVars>>

\* fetchGoPlusData runs from its last await to its end, given the response:
\* its promise settles and checkToken is left to resume
Returns(s, response) ==
  /\ fetched' = [fetched EXCEPT ![s] =
                   fetchGoPlusData(call[s].chain, call[s].address, response)]
  /\ pc' = [pc EXCEPT ![s] = "await_data"]

\* checkToken(address, chain) is called: it calls fetchGoPlusData, which makes
\* its request at line 129, or returns null at line 124 without a request,
\* whatever the network would have answered
CheckTokenCall(s, address, chain) ==
  /\ pc[s] = "idle"
  /\ call' = [call EXCEPT ![s] = [address |-> address, chain |-> chain]]
  /\ IF Truthy(ChainId(chain))
     THEN /\ pc' = [pc EXCEPT ![s] = "await_fetch"]
          /\ UNCHANGED fetched
     ELSE /\ pc' = [pc EXCEPT ![s] = "await_data"]
          /\ fetched' = [fetched EXCEPT ![s] =
                          fetchGoPlusData(chain, address, Response("ok", address, db))]
  /\ UNCHANGED <<profile, db, edits, net, answer, goPlusData, result, scoreVars, batchVars>>

\* fetch(url) rejects: the catch block runs and fetchGoPlusData returns null
FetchRejects(s) ==
  /\ pc[s] = "await_fetch"
  /\ net' = [net EXCEPT ![s] = "throw"]
  /\ Returns(s, Response("throw", call[s].address, db))
  /\ UNCHANGED <<profile, db, edits, call, answer, goPlusData, result, scoreVars, batchVars>>

\* fetch(url) resolves: the response carries the record the provider holds now
FetchResolves(s) ==
  /\ pc[s] = "await_fetch"
  /\ answer' = [answer EXCEPT ![s] = Obj(db)]
  /\ pc' = [pc EXCEPT ![s] = "await_json"]
  /\ UNCHANGED <<profile, db, edits, call, net, fetched, goPlusData, result,
                 scoreVars, batchVars>>

\* response.json() settles: it rejects, or gives the parsed GoPlusResponse;
\* fetchGoPlusData reads it and returns
JsonSettles(s, kind) ==
  /\ pc[s] = "await_json"
  /\ net' = [net EXCEPT ![s] = kind]
  /\ Returns(s, Response(kind, call[s].address, answer[s].v))
  /\ UNCHANGED <<profile, db, edits, call, answer, goPlusData, result, scoreVars, batchVars>>

\* checkToken resumes after line 410 with what fetchGoPlusData gave, and runs
\* to its return
Resumes(s) ==
  /\ pc[s] = "await_data"
  /\ goPlusData' = [goPlusData EXCEPT ![s] = fetched[s]]
  /\ result' = [result EXCEPT ![s] =
                  ResumeCheckToken(call[s].address, call[s].chain, fetched[s])]
  /\ pc' = [pc EXCEPT ![s] = "done"]
  /\ UNCHANGED <<profile, db, edits, call, net, answer, fetched, scoreVars, batchVars>>

\* the steps of the call of caller s
CallSteps(s) ==
  \/ \E k \in DOMAIN Calls : CheckTokenCall(s, Calls[k].address, Calls[k].chain)
  \/ FetchRejects(s)
  \/ FetchResolves(s)
  \/ \E kind \in BodyKinds : JsonSettles(s, kind)
  \/ Resumes(s)

Init == profile \in Profiles /\ InitCheck /\ InitScore /\ InitBatch

\* one caller; the provider's record is any profile and changes in any field
Next ==
  \/ \E f \in EditableFields : \E v \in FieldValues(f) : ProviderUpdate(f, v)
  \/ CallSteps("a")

Spec == Init /\ [][Next]_vars

InitOverlap == profile \in {"empty", "scam"} /\ InitCheck /\ InitScore /\ InitBatch

\* two callers whose calls overlap while the provider changes its record
NextOverlap ==
  \/ \E e \in OverlapEdits : ProviderUpdate(e[1], e[2])
  \/ \E s \in Slots : CallSteps(s)

SpecOverlap == InitOverlap /\ [][NextOverlap]_vars

----------------------------------------------------------------------------
(* calculateRiskScore on a sequence that grows finding by finding *)

AppendRisk(r) ==
  /\ Len(risks) < MaxRisks
  /\ risks' = Append(risks, r)
  /\ score' = calculateRiskScore(risks')
  /\ UNCHANGED <<checkVars, batchVars>>

InitOne == profile = "empty" /\ InitCheck /\ InitScore /\ InitBatch

NextScore == \E r \in SomeRisks : AppendRisk(r)

SpecScore == InitOne /\ [][NextScore]_vars

----------------------------------------------------------------------------
(* checkTokens *)

batchSize == 5

\* the loop without tokens.slice(i, i + batchSize): every remaining token is
\* looked up at once
EnterLoop_noSlice(idx, res) ==
  /\ i' = idx
  /\ results' = res
  /\ IF idx < Len(tokens')
     THEN /\ status' = [k \in 1..(Len(tokens') - idx) |-> "inflight"]
          /\ batchResults' = [k \in 1..(Len(tokens') - idx) |-> Undefined]
          /\ bpc' = "await"
     ELSE /\ status' = <<>>
          /\ batchResults' = <<>>
          /\ bpc' = "returned"

\* the loop test at index idx with the results so far: start the next window
\* (every checkToken of the slice is called, each runs to its await) or return
EnterLoop(idx, res) ==
  /\ i' = idx
  /\ results' = res
  /\ IF idx < Len(tokens')
     THEN LET n == IF Len(tokens') - idx < batchSize THEN Len(tokens') - idx
                   ELSE batchSize
          IN  /\ status' = [k \in 1..n |-> "inflight"]
              /\ batchResults' = [k \in 1..n |-> Undefined]
              /\ bpc' = "await"
     ELSE /\ status' = <<>>
          /\ batchResults' = <<>>
          /\ bpc' = "returned"

CheckTokensCall(ts) ==
  /\ bpc = "idle"
  /\ tokens' = ts
  /\ kinds' = [k \in 1..Len(ts) |-> "none"]
  /\ EnterLoop(0, <<>>)
  /\ UNCHANGED <<checkVars, scoreVars>>

\* For a chain without a truthy id no request is made; the network would have
\* answered with the record.
KindsFor(chain) == IF Truthy(ChainId(chain)) THEN Kinds ELSE {"ok"}

\* the promise of lookup k of the window settles (the last step of its
\* checkToken call; the steps before it change nothing checkTokens holds and
\* leave the lookup in flight); a rejection rejects Promise.all and with it the
\* promise of checkTokens
LookupSettles(k, kind) ==
  /\ bpc = "await"
  /\ k \in DOMAIN status
  /\ status[k] = "inflight"
  /\ kind \in KindsFor(tokens[i + k].chain)
  /\ LET tok == tokens[i + k]
         settled == checkToken(tok.address, tok.chain,
                               Response(kind, tok.address, BatchDb(tok.address)))
     IN  /\ kinds' = [kinds EXCEPT ![i + k] = kind]
         /\ status' = [status EXCEPT ![k] = "done"]
         /\ IF settled.t = "throw"
            THEN bpc' = "raised" /\ UNCHANGED batchResults
            ELSE bpc' = bpc /\ batchResults' = [batchResults EXCEPT ![k] = settled.v]
  /\ UNCHANGED <<tokens, i, results, checkVars, scoreVars>>

\* Promise.all resolved: push the window's results and go round the loop
WindowCompletes ==
  /\ bpc = "await"
  /\ \A k \in DOMAIN status : status[k] = "done"
  /\ UNCHANGED <<tokens, kinds>>
  /\ EnterLoop(i + batchSize, results \o batchResults)
  /\ UNCHANGED <<checkVars, scoreVars>>

NextBatch ==
  \/ \E ts \in TokenLists : CheckTokensCall(ts)
  \/ \E k \in 1..batchSize : \E kind \in BatchKinds : LookupSettles(k, kind)
  \/ WindowCompletes

SpecBatch == InitOne /\ [][NextBatch]_vars

----------------------------------------------------------------------------
(* Claims *)

BoolFields ==
  {"verified", "renounced", "mintable", "pausable", "blacklist", "whitelist",
   "proxy", "selfDestruct", "externalCall", "cannotBuy", "cannotSellAll",
   "slippageModifiable", "hiddenOwner", "antiWhale", "tradingCooldown"}

\* every boolean field false and owner, creator, buyTax, sellTax unset
AllFalseUnset(contract) ==
  /\ \A f \in BoolFields : ~contract[f]
  /\ contract.owner = UNDEF
  /\ contract.creator = UNDEF
  /\ contract.buyTax.t = "undefined"
  /\ contract.sellTax.t = "undefined"

\* the call of caller s has settled to a TokenCheck
Settled(s) == pc[s] = "done" /\ result[s].t = "object"

\* the call of caller s has settled and its chain is not one of CHAIN_IDS, or
\* the network failed or gave no record under the address
NoData(s) ==
  /\ pc[s] = "done"
  /\ \/ ToLowerCase(call[s].chain) \notin DOMAIN CHAIN_IDS
     \/ net[s] \in NoDataKinds

\* C1 as stated: an all-false, all-unset ContractInfo with no TokenInfo has an
\* empty risk list, score 0 and level safe.
C1_Original ==
  \A s \in Slots :
    (Settled(s) /\ AllFalseUnset(result[s].v.contract)
       /\ result[s].v.tokenInfo.t = "undefined")
      => /\ result[s].v.risks = <<>>
         /\ result[s].v.riskScore = 0
         /\ result[s].v.riskLevel = "safe"

\* C1 amended: an all-false, all-unset ContractInfo with no TokenInfo (the one
\* checkToken builds when there is no data) has verified = false, so its risk
\* list is the single finding unverified/high, its score 25 and its level low.
C1_DegradedProfile ==
  \A s \in Slots :
    (Settled(s) /\ AllFalseUnset(result[s].v.contract)
       /\ result[s].v.tokenInfo.t = "undefined")
      => /\ result[s].v.risks = <<[type |-> "unverified", severity |-> "high"]>>
         /\ result[s].v.riskScore = 25
         /\ result[s].v.riskLevel = "low"

\* one call has settled to the fallback while the other, made for a different
\* token, still awaits the body of a response that carries a record the
\* provider has changed since
C1_Witness ==
  \E s, u \in Slots :
    /\ s # u
    /\ Settled(s)
    /\ net[s] = "no_result"
    /\ goPlusData[s].t = "null"
    /\ AllFalseUnset(result[s].v.contract)
    /\ result[s].v.tokenInfo.t = "undefined"
    /\ result[s].v.riskScore = 25
    /\ pc[u] = "await_json"
    /\ call[u] # call[s]
    /\ answer[u] # Obj(db)

\* C2: when the attribute source yields no data (unsupported chain, fetch or
\* parse failure, non-success code, no result, address missing from it),
\* checkToken does not raise: it settles to a TokenCheck carrying the call's
\* address and chain, an all-false, all-unset contract and no tokenInfo.
C2_NoDataDegrades ==
  \A s \in Slots :
    NoData(s) =>
      /\ goPlusData[s].t = "null"
      /\ result[s].t = "object"
      /\ result[s].v.address = call[s].address
      /\ result[s].v.chain = call[s].chain
      /\ AllFalseUnset(result[s].v.contract)
      /\ result[s].v.tokenInfo.t = "undefined"

\* C3 as stated: in every TokenCheck, from a parsed record or from the fallback,
\* renounced is true iff owner is absent or the zero address.
C3_Original ==
  \A s \in Slots :
    Settled(s) =>
      (result[s].v.contract.renounced
         <=> result[s].v.contract.owner \in {UNDEF, ZeroAddress})

\* C3 amended: in a TokenCheck built by parsing the data fetchGoPlusData
\* returned, renounced is true iff owner is absent, the empty string or the
\* zero address; in the no-data fallback renounced is false and owner is absent.
C3_Renounced ==
  \A s \in Slots :
    Settled(s) =>
      IF goPlusData[s].t # "null"
      THEN result[s].v.contract.renounced
             <=> result[s].v.contract.owner \in {UNDEF, "", ZeroAddress}
      ELSE ~result[s].v.contract.renounced /\ result[s].v.contract.owner = UNDEF

C3_Witness ==
  \E s \in Slots :
    /\ Settled(s)
    /\ goPlusData[s].t = "object"
    /\ result[s].v.contract.owner = ZeroAddress
    /\ result[s].v.contract.renounced
    /\ result[s].v.contract.mintable

CountSeverity(rs, sev) ==
  Cardinality({k \in DOMAIN rs : rs[k].severity = sev})

\* C4: calculateRiskScore is the sum of the weights low=5, medium=15, high=25,
\* critical=40 clamped to 100: an integer in 0..100, 0 for the empty sequence,
\* and never smaller after a finding is appended.
C4_Score ==
  /\ [](LET sum == 5 * CountSeverity(risks, "low") + 15 * CountSeverity(risks, "medium")
                     + 25 * CountSeverity(risks, "high")
                     + 40 * CountSeverity(risks, "critical")
        IN  /\ score = (IF sum > 100 THEN 100 ELSE sum)
            /\ score \in 0..100
            /\ (risks = <<>> => score = 0))
  /\ [][risks' = Append(risks, risks'[Len(risks')]) => score' >= score]_vars

C4_Witness ==
  /\ Len(risks) = 3
  /\ \A k \in DOMAIN risks : risks[k].severity = "critical"
  /\ score = 100

\* the step function of the README's Risk Levels table
LevelOf(n) ==
  CASE n \in 0..14 -> "safe"
    [] n \in 15..34 -> "low"
    [] n \in 35..54 -> "medium"
    [] n \in 55..74 -> "high"
    [] n \in 75..100 -> "critical"

\* C5: in every TokenCheck riskLevel is the step function of riskScore
\* (0..14 safe, 15..34 low, 35..54 medium, 55..74 high, 75..100 critical, which
\* getRiskLevel computes for every score 0..100) and riskScore is the score of
\* the risks of the same TokenCheck.
C5_Level ==
  /\ \A n \in 0..100 : getRiskLevel(n) = LevelOf(n)
  /\ \A s \in Slots :
       Settled(s) =>
         /\ result[s].v.riskScore \in 0..100
         /\ result[s].v.riskLevel = LevelOf(result[s].v.riskScore)
         /\ result[s].v.riskScore = calculateRiskScore(result[s].v.risks)

C5_Witness ==
  \E s \in Slots :
    /\ Settled(s)
    /\ result[s].v.riskScore = 15
    /\ result[s].v.riskLevel = "low"
    /\ Len(result[s].v.risks) = 1

RuleOrder ==
  <<"cannot_sell", "cannot_buy", "self_destruct", "unverified", "mintable",
    "hidden_owner", "external_call", "high_sell_tax", "high_buy_tax", "ownership",
    "pausable", "blacklist", "proxy", "slippage_modifiable", "creator_concentration",
    "holder_concentration", "low_holders", "anti_whale", "trading_cooldown">>

Pos(type) == CHOOSE k \in DOMAIN RuleOrder : RuleOrder[k] = type

SeverityRank(sev) ==
  CASE sev = "low" -> 1 [] sev = "medium" -> 2 [] sev = "high" -> 3
    [] sev = "critical" -> 4

\* C6: the risk list is a subsequence of the rule declaration order, so each
\* type occurs at most once; with cannotSellAll, mintable and pausable true,
\* cannot_sell precedes mintable precedes pausable.
C6_RuleOrder ==
  \A s \in Slots :
    Settled(s) =>
      LET rs == result[s].v.risks
          c == result[s].v.contract
          At(type) == CHOOSE k \in DOMAIN rs : rs[k].type = type
      IN  /\ \A k \in DOMAIN rs : \E p \in DOMAIN RuleOrder : RuleOrder[p] = rs[k].type
          /\ \A a, b \in DOMAIN rs : a < b => Pos(rs[a].type) < Pos(rs[b].type)
          /\ (c.cannotSellAll /\ c.mintable /\ c.pausable) =>
               /\ \A t \in {"cannot_sell", "mintable", "pausable"} :
                    \E k \in DOMAIN rs : rs[k].type = t
               /\ At("cannot_sell") < At("mintable")
               /\ At("mintable") < At("pausable")

\* a list with the three findings of the example that is not in severity
\* order: a high finding follows a medium one
C6_Witness ==
  \E s \in Slots :
    /\ Settled(s)
    /\ result[s].v.contract.cannotSellAll
    /\ result[s].v.contract.mintable
    /\ result[s].v.contract.pausable
    /\ \E a, b \in DOMAIN result[s].v.risks :
         /\ a < b
         /\ SeverityRank(result[s].v.risks[a].severity)
              < SeverityRank(result[s].v.risks[b].severity)

\* C7: isHoneypot is true iff the provider record's is_honeypot is "1", or its
\* honeypot_with_same_creator is "1", or contract.cannotSellAll, or
\* contract.sellTax is set and above 50.
C7_Honeypot ==
  \A s \in Slots :
    Settled(s) =>
      (result[s].v.isHoneypot <=>
         \/ goPlusData[s].t = "object" /\ goPlusData[s].v.is_honeypot = "1"
         \/ goPlusData[s].t = "object" /\ goPlusData[s].v.honeypot_with_same_creator = "1"
         \/ result[s].v.contract.cannotSellAll
         \/ /\ result[s].v.contract.sellTax.t = "number"
            /\ result[s].v.contract.sellTax.v > 50 * 10000)

\* sellTax = 60 with every other flag false: a honeypot whose only finding is
\* the sell tax
C7_Witness ==
  \E s \in Slots :
    /\ Settled(s)
    /\ profile = "clean"
    /\ result[s].v.contract.sellTax = Lit(60)
    /\ result[s].v.isHoneypot
    /\ ~result[s].v.contract.cannotSellAll
    /\ goPlusData[s].t = "object"
    /\ goPlusData[s].v.is_honeypot = "0"
    /\ Len(result[s].v.risks) = 1

\* C8: isRugPull is true iff riskScore >= 70 or isHoneypot; a score of 69 with
\* no honeypot is no rug pull.
C8_RugPull ==
  /\ ~IsRugPull(69, FALSE)
  /\ \A s \in Slots :
       Settled(s) =>
         /\ result[s].v.isRugPull
              <=> (result[s].v.riskScore >= 70 \/ result[s].v.isHoneypot)
         /\ result[s].v.isHoneypot => result[s].v.isRugPull

C8_Witness ==
  \E s \in Slots :
    /\ Settled(s)
    /\ result[s].v.riskScore = 70
    /\ ~result[s].v.isHoneypot
    /\ result[s].v.isRugPull

\* what lookup k of the batch must settle to, from its own input and answer
ExpectedResult(k) ==
  checkToken(tokens[k].address, tokens[k].chain,
             Response(kinds[k], tokens[k].address, BatchDb(tokens[k].address)))

\* C9: checkTokens never raises and can always go on until it returns; it
\* returns one result per input, result k carrying input k's address and chain
\* and being what input k's own answer gives, the degraded TokenCheck when its
\* fetch failed.
C9_Batch ==
  /\ bpc # "raised"
  /\ bpc = "await" => ENABLED NextBatch
  /\ bpc = "returned" =>
       /\ Len(results) = Len(tokens)
       /\ \A k \in DOMAIN tokens :
            /\ results[k].address = tokens[k].address
            /\ results[k].chain = tokens[k].chain
            /\ Obj(results[k]) = ExpectedResult(k)
            /\ kinds[k] = "throw"
                 => /\ AllFalseUnset(results[k].contract)
                    /\ results[k].tokenInfo.t = "undefined"

\* six tokens, the first answered, the second's fetch failing
C9_Witness ==
  /\ bpc = "returned"
  /\ Len(tokens) = 6
  /\ tokens[1] # tokens[2]
  /\ kinds[1] = "ok"
  /\ kinds[2] = "throw"
  /\ kinds[6] = "ok"
  /\ results[1].riskScore = 70
  /\ AllFalseUnset(results[2].contract)
  /\ results[2].address = "0xbbbb"

\* C10: with a TokenInfo, there is a low_holders finding (one, of severity low)
\* iff holderCount is set to a value in 0..49; without a TokenInfo there is none.
C10_LowHolders ==
  \A s \in Slots :
    Settled(s) =>
      LET found == {k \in DOMAIN result[s].v.risks :
                      result[s].v.risks[k].type = "low_holders"}
          ti == result[s].v.tokenInfo
      IN  IF ti.t = "object" /\ ti.v.holderCount.t = "number"
               /\ ti.v.holderCount.v >= 0 /\ ti.v.holderCount.v < 50 * 10000
          THEN /\ Cardinality(found) = 1
               /\ \A k \in found : result[s].v.risks[k].severity = "low"
          ELSE found = {}

\* the findings of a type in a risk list
Findings(rs, type) == {k \in DOMAIN rs : rs[k].type = type}

\* C11: a record without buy_tax gives buyTax unset and no high_buy_tax
\* finding; buy_tax "0" gives buyTax = 0, which is set, and no high_buy_tax
\* finding either; the same for sell_tax and high_sell_tax. An unset tax is
\* never 0 and never fires a tax rule, in the no-data fallback too.
C11_UnsetVsZero ==
  \A s \in Slots :
    Settled(s) =>
      LET c == result[s].v.contract
          rs == result[s].v.risks
          data == goPlusData[s]
      IN  /\ data.t = "object" =>
               /\ data.v.buy_tax = UNDEF => c.buyTax = Undefined
               /\ data.v.sell_tax = UNDEF => c.sellTax = Undefined
               /\ data.v.buy_tax = "0" =>
                    c.buyTax = Num(0) /\ Findings(rs, "high_buy_tax") = {}
               /\ data.v.sell_tax = "0" =>
                    c.sellTax = Num(0) /\ Findings(rs, "high_sell_tax") = {}
          /\ c.buyTax.t = "undefined" => Findings(rs, "high_buy_tax") = {}
          /\ c.sellTax.t = "undefined" => Findings(rs, "high_sell_tax") = {}

\* one record with buy_tax "0" and no sell_tax: buyTax is 0, sellTax is unset
C11_Witness ==
  \E s \in Slots :
    /\ Settled(s)
    /\ goPlusData[s].t = "object"
    /\ goPlusData[s].v.buy_tax = "0"
    /\ goPlusData[s].v.sell_tax = UNDEF
    /\ result[s].v.contract.buyTax = Num(0)
    /\ result[s].v.contract.sellTax = Undefined
    /\ Findings(result[s].v.risks, "high_buy_tax") = {}
    /\ Findings(result[s].v.risks, "high_sell_tax") = {}

\* the lookups of the current window that have not settled
InFlight == {k \in DOMAIN status : status[k] = "inflight"}

\* C12: lookups are issued in consecutive windows of at most 5 tokens: at most
\* 5 are in flight; while window i+1..i+5 is awaited every earlier token has
\* settled and has its result in results, in input order, and no later token
\* has been looked up; the window changes only when all its lookups are done,
\* and a lookup in flight stays so until it settles.
C12_Windows ==
  /\ [](/\ Cardinality(InFlight) <= 5
        /\ Len(status) <= 5
        /\ i % 5 = 0
        /\ bpc = "await" =>
             /\ Len(results) = i
             /\ i + Len(status) <= Len(tokens)
             /\ Len(status) < 5 => i + Len(status) = Len(tokens)
             /\ \A k \in DOMAIN tokens :
                  /\ k <= i => /\ kinds[k] # "none"
                               /\ results[k].address = tokens[k].address
                               /\ results[k].chain = tokens[k].chain
                  /\ (k > i /\ k <= i + Len(status)) =>
                       (kinds[k] = "none" <=> status[k - i] = "inflight")
                  /\ k > i + Len(status) => kinds[k] = "none"
        /\ bpc = "returned" => Len(results) = Len(tokens) /\ InFlight = {})
  /\ [][i' # i => InFlight = {}]_vars
  /\ [][\A k \in InFlight : i' = i /\ k \in DOMAIN status'
                             /\ status'[k] \in {"inflight", "done"}]_vars

\* the second window is awaited: the first five results are in, the sixth
\* lookup is in flight
C12_Witness ==
  /\ bpc = "await"
  /\ i = 5
  /\ Len(tokens) = 6
  /\ Len(results) = 5
  /\ InFlight = {1}
  /\ kinds[6] = "none"
  /\ kinds[5] = "throw"

\* the tier of a tax: none when it is unset, NaN or at most 10, high above 10
\* and up to 30, critical above 30
TaxTier(tax) ==
  IF tax.t # "number" \/ tax.v <= 10 * 10000 THEN "none"
  ELSE IF tax.v <= 30 * 10000 THEN "high"
  ELSE "critical"

\* the severities of the findings of a type in a risk list, in list order
SeveritiesOf(list, type) ==
  LET RECURSIVE Pick(_)
      Pick(rs) ==
        IF rs = <<>> THEN <<>>
        ELSE (IF rs[1].type = type THEN <<rs[1].severity>> ELSE <<>>) \o Pick(Tail(rs))
  IN  Pick(list)

\* C13: there is no high_sell_tax finding when sellTax is unset or at most 10,
\* one of severity high when 10 < sellTax <= 30 and one of severity critical
\* when sellTax > 30; high_buy_tax follows buyTax in the same way. Each depends
\* on its own tax alone.
C13_TaxTiers ==
  \A s \in Slots :
    Settled(s) =>
      LET c == result[s].v.contract
          rs == result[s].v.risks
      IN  /\ SeveritiesOf(rs, "high_sell_tax") =
               (IF TaxTier(c.sellTax) = "none" THEN <<>> ELSE <<TaxTier(c.sellTax)>>)
          /\ SeveritiesOf(rs, "high_buy_tax") =
               (IF TaxTier(c.buyTax) = "none" THEN <<>> ELSE <<TaxTier(c.buyTax)>>)

\* sellTax = 35 is critical while buyTax = 10 gives no finding
C13_Witness ==
  \E s \in Slots :
    /\ Settled(s)
    /\ result[s].v.contract.sellTax = Lit(35)
    /\ result[s].v.contract.buyTax = Lit(10)
    /\ SeveritiesOf(result[s].v.risks, "high_sell_tax") = <<"critical">>
    /\ SeveritiesOf(result[s].v.risks, "high_buy_tax") = <<>>

\* sellTax = 15 is high, whatever the buy tax
C13_WitnessHigh ==
  \E s \in Slots :
    /\ Settled(s)
    /\ result[s].v.contract.sellTax = Lit(15)
    /\ SeveritiesOf(result[s].v.risks, "high_sell_tax") = <<"high">>

====
